---- MODULE Spec2Model ----
(***************************************************************************)
(* Verification model of the flux-etl checkpoint subsystem.                *)
(*                                                                         *)
(* Part I  models the PostgreSQL checkpoint store (schema_checkpoints.sql):*)
(*         the tables flux.checkpoints, flux.checkpoint_hashes and         *)
(*         flux.audit_log and the four plpgsql functions working on them.  *)
(*         Every function call runs in one transaction and is one action.  *)
(* Part II models the Go orchestrator (mcpcli_project/master/master.go):   *)
(*         Run, SaveCheckpoint, LoadCheckpoint and DeleteCheckpoint over   *)
(*         the "<runID>.checkpoint.json" files.                            *)
(***************************************************************************)
EXTENDS Integers, Sequences, FiniteSets, TLC

(***************************************************************************)
(* Bounds of the model.                                                    *)
(***************************************************************************)
MaxAudit == 2     \* calls that may write flux.audit_log in one behaviour
MaxRetentionAudit == 3  \* the same, in the behaviours of RetentionSpec
MaxIds   == 3     \* rows gen_random_uuid() is asked to name in one behaviour
MaxHashRows == 1  \* rows of flux.checkpoint_hashes
TickDays == 30    \* days by which one step of the clock advances NOW()
MaxTime  == 60    \* last value of NOW() that is explored

(***************************************************************************)
(* Program constants.                                                      *)
(***************************************************************************)
RetentionDays == 30     \* expires_at DEFAULT NOW() + INTERVAL '30 days'

(***************************************************************************)
(* SQL values.  NULL is written per column type, since the values of one   *)
(* column have to be comparable with it.                                   *)
(***************************************************************************)
NULL      == "NULL"     \* NULL of a text, uuid or jsonb column
NULL_HASH == <<>>       \* NULL of a digest (digests are tuples, see sha256)
NULL_TS   == -1         \* NULL of a timestamptz column

\* A boolean column as it leaves a query: the LEFT JOIN of load_checkpoint
\* yields NULL for integrity_valid when no flux.checkpoint_hashes row exists.
sql_bool(b) == IF b THEN "t" ELSE "f"

(***************************************************************************)
(* Input domains.                                                          *)
(***************************************************************************)
RunIds   == {"R1", "R2"}
Agencies == {"nasa", "noaa"}
UserIds  == {"alice", NULL}
ProviderNames == {"mock"}
Models    == {"gpt-demo"}

\* The role that created the schema (or a superuser): the row-level policies
\* of lines 375-387 are not FORCEd, so they do not bind it.
OWNER == "(owner)"
\* The values of flux.current_agency_id in the sessions of flux_app_role.
AppSettings == {"nasa"}
\* A session is OWNER, or flux_app_role with flux.current_agency_id set.
\* flux_app_role is granted neither USAGE on the sequence behind
\* flux.audit_log.id nor any write on flux.checkpoint_hashes (lines 407-414),
\* so save, validate and cleanup raise for it and change nothing: the calls
\* that change the store are the ones OWNER makes, and only load, which
\* needs no more than SELECT, is modelled for both kinds of session.
Sessions == {OWNER} \cup AppSettings

\* What a caller hands to save: (payload, events, last_step).
Snapshots ==
    { [payload |-> "p1", events |-> <<"auth">>,                 last_step |-> "auth"],
      [payload |-> "p1", events |-> <<"auth", "model_select">>, last_step |-> "model_select"],
      [payload |-> "p2", events |-> <<"auth">>,                 last_step |-> "auth"],
      [payload |-> NULL, events |-> <<"auth">>,                 last_step |-> "auth"] }

\* SHA256 over the content: collision-free, so modelled as the content itself.
sha256(payload, events) == <<"sha256", payload, events>>

\* A digest of some other content than any snapshot.
OtherDigest == sha256("garbage", <<>>)

\* The digests a caller of save passes with a snapshot: the digest of the
\* snapshot, or (the function takes whatever it is given) another one.
SaveDigests(snap) ==
    {sha256(snap.payload, snap.events)}
    \cup (IF snap.events = <<"auth">> /\ snap.payload = "p1" THEN {OtherDigest} ELSE {})

\* The digests a caller of validate recomputes.
VerifyDigests == {sha256("p1", <<"auth">>), OtherDigest, NULL_HASH}

UUIDs == <<"uuid-1", "uuid-2", "uuid-3", "uuid-4">>
\* A uuid no row carries.
UnknownId == "uuid-0"

VARIABLES
    checkpoints,        \* flux.checkpoints: a set of rows
    checkpoint_hashes,  \* flux.checkpoint_hashes: a set of rows
    audit_log,          \* flux.audit_log: the rows in insertion order
    now,                \* NOW()
    uuid_next,          \* index of the next value gen_random_uuid() returns
    call,               \* the last function call: name and identifying arguments
    ret,                \* what the last function call returned
    files,              \* the "<runID>.checkpoint.json" files of the directory
    run,                \* the invocations of Run: position and local variables
    started,            \* number of invocations of Run so far
    unix_nano,          \* index of the next value time.Now().UnixNano() returns
    heap,               \* the backing arrays of the []Event slices allocated so far
    monads,             \* the Monad values obtained so far, in the order obtained
    lib_call,           \* the last call of a function of errors.go or validation.go
    lib_ret             \* what that call returned

store_vars == <<checkpoints, checkpoint_hashes, audit_log, now, uuid_next, call, ret>>

go_vars == <<files, run, started, unix_nano>>

slice_vars == <<heap, monads>>

lib_vars == <<lib_call, lib_ret>>

vars == <<checkpoints, checkpoint_hashes, audit_log, now, uuid_next, call, ret,
          files, run, started, unix_nano, heap, monads,
          lib_call, lib_ret>>

(***************************************************************************)
(* Calls and results.                                                      *)
(***************************************************************************)
Call(fn, run_id, agency_id) ==
    [fn |-> fn, run_id |-> run_id, agency_id |-> agency_id]

NoCall == Call("none", NULL, NULL)

\* raised: the call ended with an exception (its transaction is rolled back);
\* id: the uuid save returns; rows: the table load returns;
\* valid: the boolean validate returns; count: the integer cleanup returns.
Ret(raised, id, rows, valid, count) ==
    [raised |-> raised, id |-> id, rows |-> rows, valid |-> valid, count |-> count]

NoRet  == Ret(FALSE, NULL, {}, FALSE, 0)
Raised == Ret(TRUE, NULL, {}, FALSE, 0)

(***************************************************************************)
(* Part I.  The checkpoint store.                                          *)
(***************************************************************************)

\* gen_random_uuid(): a value no row has carried before.
gen_random_uuid == UUIDs[uuid_next]

jsonb_array_length(a) == Len(a)

\* CREATE POLICY ... USING (agency_id = current_setting('flux.current_agency_id')).
\* Without a WITH CHECK clause the same expression guards the rows written.
checkpoint_isolation(session, row) ==
    session = OWNER \/ row.agency_id = session

\* The VALUES list of the INSERT of save_checkpoint.
values_list(p_run_id, p_agency_id, p_provider_name, p_model, p_payload, p_events, p_last_step, p_checkpoint_hash, p_user_id) ==
    [ run_id          |-> p_run_id,
      agency_id       |-> p_agency_id,
      provider_name   |-> p_provider_name,
      model           |-> p_model,
      payload         |-> p_payload,
      events          |-> p_events,
      event_count     |-> jsonb_array_length(p_events),
      last_step       |-> p_last_step,
      checkpoint_hash |-> p_checkpoint_hash,
      created_by_user |-> p_user_id,
      status          |-> "PENDING" ]

\* A variant of the defaults: checkpoint_version starts at 0.
column_defaults_version_0 ==
    [ id                 |-> gen_random_uuid,
      checkpoint_version |-> 0,
      created_at         |-> now,
      updated_at         |-> now,
      expires_at         |-> now + RetentionDays,
      failure_reason     |-> NULL ]

\* The defaults of the columns of flux.checkpoints the INSERT leaves out.
column_defaults ==
    [ id                 |-> gen_random_uuid,
      checkpoint_version |-> 1,
      created_at         |-> now,
      updated_at         |-> now,
      expires_at         |-> now + RetentionDays,
      failure_reason     |-> NULL ]

\* The row INSERT proposes.
proposed_row(p_run_id, p_agency_id, p_provider_name, p_model, p_payload, p_events, p_last_step, p_checkpoint_hash, p_user_id) ==
    values_list(p_run_id, p_agency_id, p_provider_name, p_model, p_payload,
                p_events, p_last_step, p_checkpoint_hash, p_user_id)
    @@ column_defaults

\* The NOT NULL columns of flux.checkpoints.
not_null_violation(row) ==
    \/ row.run_id = NULL
    \/ row.agency_id = NULL
    \/ row.provider_name = NULL
    \/ row.payload = NULL
    \/ row.checkpoint_hash = NULL_HASH

\* A variant: a conflict target of (run_id, agency_id).
on_conflict_per_tenant(rows, new) ==
    { r \in rows : r.run_id = new.run_id /\ r.agency_id = new.agency_id }

\* ON CONFLICT (run_id): the rows the UNIQUE constraint on run_id sets
\* against the proposed row.
on_conflict(rows, new) == { r \in rows : r.run_id = new.run_id }

\* A variant: DO UPDATE SET that assigns agency_id as well.
do_update_with_tenant(old, excluded) ==
    [ old EXCEPT !.agency_id       = excluded.agency_id,
                 !.payload         = excluded.payload,
                 !.events          = excluded.events,
                 !.event_count     = excluded.event_count,
                 !.last_step       = excluded.last_step,
                 !.checkpoint_hash = excluded.checkpoint_hash,
                 !.updated_at      = now ]

\* DO UPDATE SET ...; the BEFORE UPDATE trigger sets updated_at as well.
do_update(old, excluded) ==
    [ old EXCEPT !.payload         = excluded.payload,
                 !.events          = excluded.events,
                 !.event_count     = excluded.event_count,
                 !.last_step       = excluded.last_step,
                 !.checkpoint_hash = excluded.checkpoint_hash,
                 !.updated_at      = now ]

\* A row of flux.audit_log as the functions write it; the columns they leave
\* out keep their NULL default.
audit_entry(user_id, agency_id, action, resource_type, resource_id) ==
    [ timestamp     |-> now,
      user_id       |-> user_id,
      agency_id     |-> agency_id,
      action        |-> action,
      resource_type |-> resource_type,
      resource_id   |-> resource_id,
      success       |-> TRUE,
      error_code    |-> NULL,
      before_state  |-> NULL,
      after_state   |-> NULL ]

\* A variant of the INSERT: the table keeps the latest entry only.
insert_latest_only(log, entry) == <<entry>>

\* INSERT INTO flux.audit_log (...) VALUES (...): id is a BIGSERIAL, the new
\* row comes after the rows the table has.
insert_audit_log(log, entry) == Append(log, entry)

\* INSERT INTO flux.audit_log raises for a NULL user_id or agency_id.
audit_insert_raises(entry) ==
    \/ entry.user_id = NULL
    \/ entry.agency_id = NULL

\* A variant: the statements executed before the exception stay in effect.
no_rollback(raised, before, after) == after

\* A plpgsql function runs inside the caller's transaction: an exception
\* that leaves it undoes every statement it executed.
on_exception(raised, before, after) == IF raised THEN before ELSE after

save_checkpoint(p_run_id, p_agency_id, p_provider_name, p_model, p_payload, p_events, p_last_step, p_checkpoint_hash, p_user_id) ==
    LET new == proposed_row(p_run_id, p_agency_id, p_provider_name, p_model,
                            p_payload, p_events, p_last_step, p_checkpoint_hash,
                            p_user_id)
        conflict == on_conflict(checkpoints, new)
        upsert_raised == not_null_violation(new)
        upserted ==
            IF conflict = {}
            THEN checkpoints \cup {new}
            ELSE (checkpoints \ conflict) \cup { do_update(r, new) : r \in conflict }
        v_checkpoint_id ==
            IF conflict = {} THEN new.id ELSE (CHOOSE r \in conflict : TRUE).id
        entry == audit_entry(p_user_id, p_agency_id, "CREATE", "checkpoint",
                             v_checkpoint_id)
        audit_raised == audit_insert_raises(entry)
        raised == upsert_raised \/ audit_raised
        after_upsert == IF upsert_raised THEN checkpoints ELSE upserted
        after_audit  == IF raised THEN audit_log ELSE insert_audit_log(audit_log, entry)
    IN  /\ checkpoints' = on_exception(raised, checkpoints, after_upsert)
        /\ audit_log'   = on_exception(raised, audit_log, after_audit)
        /\ uuid_next'   = IF ~raised /\ conflict = {} THEN uuid_next + 1 ELSE uuid_next
        /\ call' = Call("save", p_run_id, p_agency_id)
        /\ ret'  = IF raised THEN Raised ELSE Ret(FALSE, v_checkpoint_id, {}, FALSE, 0)
        /\ UNCHANGED <<checkpoint_hashes, now>>

\* LIMIT 1
limit_1(rows) == IF rows = {} THEN {} ELSE { CHOOSE r \in rows : TRUE }

\* Variants of the WHERE clause: without its tenant condition, and with the
\* tenant condition negated.
load_where_any_tenant(c, p_run_id, p_agency_id) ==
    /\ c.run_id = p_run_id
    /\ c.expires_at > now

load_where_other_tenant(c, p_run_id, p_agency_id) ==
    /\ c.run_id = p_run_id
    /\ c.agency_id # p_agency_id
    /\ c.expires_at > now

\* WHERE c.run_id = p_run_id AND c.agency_id = p_agency_id AND c.expires_at > NOW()
load_where(c, p_run_id, p_agency_id) ==
    /\ c.run_id = p_run_id
    /\ c.agency_id = p_agency_id
    /\ c.expires_at > now

\* The query of load_checkpoint over the tables tbl and hashes.
load_query(tbl, hashes, session, p_run_id, p_agency_id) ==
    LET matching == { c \in tbl : /\ checkpoint_isolation(session, c)
                                  /\ load_where(c, p_run_id, p_agency_id) }
        out(c, is_valid) ==
            [ id |-> c.id, payload |-> c.payload, events |-> c.events,
              last_step |-> c.last_step, checkpoint_hash |-> c.checkpoint_hash,
              is_valid |-> is_valid ]
        joined ==
            { out(pr[1], sql_bool(pr[2].integrity_valid)) :
                pr \in { q \in matching \X hashes : q[2].checkpoint_id = q[1].id } }
            \cup
            { out(c, NULL) :
                c \in { d \in matching : \A h \in hashes : h.checkpoint_id # d.id } }
    IN  limit_1(joined)

load_checkpoint(session, p_run_id, p_agency_id) ==
    /\ call' = Call("load", p_run_id, p_agency_id)
    /\ ret'  = Ret(FALSE, NULL,
                   load_query(checkpoints, checkpoint_hashes, session, p_run_id, p_agency_id),
                   FALSE, 0)
    /\ UNCHANGED <<checkpoints, checkpoint_hashes, audit_log, now, uuid_next>>

\* The row validate_checkpoint_integrity proposes for flux.checkpoint_hashes.
proposed_hash_row(p_checkpoint_id, v_stored_hash, p_computed_hash, v_is_valid) ==
    [ checkpoint_id          |-> p_checkpoint_id,
      computed_hash          |-> v_stored_hash,
      verified_hash          |-> p_computed_hash,
      integrity_valid        |-> v_is_valid,
      last_verified_at       |-> now,
      hash_mismatch_detected |-> ~v_is_valid,
      mismatch_detected_at   |-> NULL_TS ]

\* A variant of the DO UPDATE: the hash of the first verification is kept.
do_update_hash_keep_verified(old, p_computed_hash, v_is_valid) ==
    [ old EXCEPT !.integrity_valid  = v_is_valid,
                 !.last_verified_at = now ]

\* ON CONFLICT (checkpoint_id) DO UPDATE SET ...
do_update_hash(old, p_computed_hash, v_is_valid) ==
    [ old EXCEPT !.verified_hash          = p_computed_hash,
                 !.integrity_valid        = v_is_valid,
                 !.last_verified_at       = now,
                 !.hash_mismatch_detected = ~v_is_valid,
                 !.mismatch_detected_at   = IF ~v_is_valid THEN now ELSE NULL_TS ]

validate_checkpoint_integrity(p_checkpoint_id, p_computed_hash) ==
    LET found == { c \in checkpoints : c.id = p_checkpoint_id }
        v_stored_hash ==
            IF found = {} THEN NULL_HASH ELSE (CHOOSE c \in found : TRUE).checkpoint_hash
        \* a comparison with NULL yields NULL, which the NOT NULL column refuses
        is_null == v_stored_hash = NULL_HASH \/ p_computed_hash = NULL_HASH
        v_is_valid == (v_stored_hash = p_computed_hash)
        new == proposed_hash_row(p_checkpoint_id, v_stored_hash, p_computed_hash,
                                 v_is_valid)
        conflict == { h \in checkpoint_hashes : h.checkpoint_id = p_checkpoint_id }
        upserted ==
            IF conflict = {}
            THEN checkpoint_hashes \cup {new}
            ELSE (checkpoint_hashes \ conflict)
                 \cup { do_update_hash(h, p_computed_hash, v_is_valid) : h \in conflict }
        raised == is_null
    IN  /\ Cardinality(upserted) <= MaxHashRows
        /\ checkpoint_hashes' = on_exception(raised, checkpoint_hashes, upserted)
        /\ call' = Call("validate", NULL, NULL)
        /\ ret'  = IF raised THEN Raised ELSE Ret(FALSE, NULL, {}, v_is_valid, 0)
        /\ UNCHANGED <<checkpoints, audit_log, now, uuid_next>>

\* A variant of the WHERE clause of cleanup: a row goes at its expiry time.
cleanup_where_at_expiry(c) == c.expires_at <= now

\* DELETE FROM flux.checkpoints WHERE expires_at < NOW()
cleanup_where(c) == c.expires_at < now

cleanup_expired_checkpoints ==
    LET expired == { c \in checkpoints : cleanup_where(c) }
        v_deleted_count == Cardinality(expired)
        \* checkpoint_id ... REFERENCES flux.checkpoints(id) ON DELETE CASCADE
        cascaded == { h \in checkpoint_hashes :
                        \A c \in expired : h.checkpoint_id # c.id }
        entry == audit_entry("system", "system", "CLEANUP", "checkpoints", NULL)
        raised == audit_insert_raises(entry)
    IN  /\ checkpoints' = on_exception(raised, checkpoints, checkpoints \ expired)
        /\ checkpoint_hashes' = on_exception(raised, checkpoint_hashes, cascaded)
        /\ audit_log' = on_exception(raised, audit_log, insert_audit_log(audit_log, entry))
        /\ call' = Call("cleanup", NULL, NULL)
        /\ ret'  = IF raised THEN Raised ELSE Ret(FALSE, NULL, {}, FALSE, v_deleted_count)
        /\ UNCHANGED <<now, uuid_next>>

\* markCompleted and markFailed.  The schema has no function that moves
\* status off PENDING: a client does it with the UPDATE it is granted,
\* UPDATE flux.checkpoints SET status = p_status WHERE run_id = p_run_id,
\* and the BEFORE UPDATE trigger sets updated_at.
TerminalStatuses == {"COMPLETED", "FAILED"}

mark_status(p_run_id, p_status) ==
    /\ \E c \in checkpoints : c.run_id = p_run_id /\ c.status \notin TerminalStatuses
    /\ checkpoints' = { IF c.run_id = p_run_id
                        THEN [c EXCEPT !.status = p_status, !.updated_at = now]
                        ELSE c : c \in checkpoints }
    /\ call' = Call("mark", p_run_id, NULL)
    /\ ret'  = NoRet
    /\ UNCHANGED <<checkpoint_hashes, audit_log, now, uuid_next>>

(***************************************************************************)
(* The store's callers and clock.                                          *)
(***************************************************************************)
\* The arguments save is called with.
SaveInputs ==
    { x \in [ run_id : RunIds, agency_id : Agencies, provider_name : ProviderNames,
              model : Models, snap : Snapshots, user_id : UserIds,
              checkpoint_hash : UNION { SaveDigests(snap) : snap \in Snapshots } ] :
        x.checkpoint_hash \in SaveDigests(x.snap) }

save(x) ==
    save_checkpoint(x.run_id, x.agency_id, x.provider_name, x.model, x.snap.payload,
                    x.snap.events, x.snap.last_step, x.checkpoint_hash, x.user_id)

Save ==
    /\ Len(audit_log) < MaxAudit
    /\ uuid_next <= MaxIds
    /\ \E x \in SaveInputs : save(x) /\ UNCHANGED <<go_vars, slice_vars, lib_vars>>

Load ==
    \E session \in Sessions, p_run_id \in RunIds, p_agency_id \in Agencies :
        /\ load_checkpoint(session, p_run_id, p_agency_id)
        /\ UNCHANGED <<go_vars, slice_vars, lib_vars>>

Validate ==
    \E p_checkpoint_id \in { c.id : c \in checkpoints } \cup {UnknownId},
       p_computed_hash \in VerifyDigests :
        /\ validate_checkpoint_integrity(p_checkpoint_id, p_computed_hash)
        /\ UNCHANGED <<go_vars, slice_vars, lib_vars>>

Cleanup ==
    /\ Len(audit_log) < MaxAudit
    /\ cleanup_expired_checkpoints
    /\ UNCHANGED <<go_vars, slice_vars, lib_vars>>

\* NOW() moves on between two calls.
Tick ==
    /\ now + TickDays <= MaxTime
    /\ now' = now + TickDays
    /\ call' = NoCall
    /\ ret' = NoRet
    /\ UNCHANGED <<checkpoints, checkpoint_hashes, audit_log, uuid_next>>
    /\ UNCHANGED <<go_vars, slice_vars, lib_vars>>

(***************************************************************************)
(* Part II.  The orchestrator (master.go) and its provider plugins.        *)
(*                                                                         *)
(* Time stamps (Event.Timestamp, Checkpoint.CreatedAt) are left out: no    *)
(* statement of Run reads them.                                            *)
(***************************************************************************)
MaxRuns == 2      \* invocations of Run in one behaviour
Procs   == {1, 2} \* invocations that may be under way at the same time

fluxDemoToken == "flux-etl-demo-token"

\* plugins.Providers: the registry of provider plugins.
Providers == {"mock", "kilo", "flux-etl"}

\* The arguments Run is invoked with: one invocation that runs through, and
\* the ones that differ from it in one argument.
Args(model, providerName, token, payload, weights) ==
    [ model |-> model, providerName |-> providerName, token |-> token,
      payload |-> payload, weights |-> weights ]

Invocations ==
    { Args("gpt-demo", "flux-etl", fluxDemoToken, [stage |-> "full"],  ""),
      Args("gpt-demo", "mock",     fluxDemoToken, [stage |-> "full"],  ""),
      Args("gpt-demo", "bogus",    fluxDemoToken, [stage |-> "full"],  ""),
      Args("gpt-demo", "flux-etl", "",            [stage |-> "full"],  ""),
      Args("gpt-demo", "flux-etl", fluxDemoToken, [stage |-> "bogus"], ""),
      Args("gpt-demo", "flux-etl", fluxDemoToken, [stage |-> "full"],  "gpt-fast:1") }

\* fmt.Sprintf("%d", n)
Sprintf_d(n) == ToString(n)

\* The names a checkpoint file can have: time.Now().UnixNano() is modelled
\* by the values 1, 2, ... in the order the invocations read the clock.
AllRunIDs == { Sprintf_d(n) : n \in 1..MaxRuns }

\* type Event struct (Data: the values of the map, in the order written)
Event(Name, Data) == [Name |-> Name, Data |-> Data]

\* type Checkpoint struct
Checkpoint(RunID, ProviderName, Model, Payload, Events, LastStep) ==
    [ RunID |-> RunID, ProviderName |-> ProviderName, Model |-> Model,
      Payload |-> Payload, Events |-> Events, LastStep |-> LastStep ]

ZeroCheckpoint == Checkpoint("", "", "", [stage |-> ""], <<>>, "")

\* type Result struct; Output is <<"error", message>> or <<"output", provider>>.
Result(Success, Output, Events, Resumed) ==
    [ Success |-> Success, Output |-> Output, Events |-> Events, Resumed |-> Resumed ]

ZeroResult == Result(FALSE, <<>>, <<>>, FALSE)

\* A file of the directory.  parses: its bytes are JSON that json.Unmarshal
\* accepts for a Checkpoint; cp: the fields Unmarshal then fills;
\* checkpoint_hash: the value of a "checkpoint_hash" key of the JSON object,
\* NULL_HASH when it has none.  Checkpoint has no field for that key, so
\* Unmarshal skips it and MarshalIndent never writes it.
File(parses, cp, checkpoint_hash) ==
    [ exists |-> TRUE, parses |-> parses, cp |-> cp, checkpoint_hash |-> checkpoint_hash ]

NoFile == [ exists |-> FALSE, parses |-> FALSE, cp |-> ZeroCheckpoint,
            checkpoint_hash |-> NULL_HASH ]

\* Bytes that are not JSON: a file cut short, or garbage.
BadFile == File(FALSE, ZeroCheckpoint, NULL_HASH)

json_MarshalIndent(cp) == File(TRUE, cp, NULL_HASH)

\* A variant of record: the new event goes in front.
record_in_front(m, name, data) == [ Events |-> <<Event(name, data)>> \o m.Events ]

\* A variant of record: the event is dropped.
record_nothing(m, name, data) == m

\* func (m Monad) record(name, data) Monad
record(m, name, data) == [ Events |-> Append(m.Events, Event(name, data)) ]

ZeroMonad == [ Events |-> <<>> ]

(***************************************************************************)
(* Monad.record at the level of Go slices.  Run uses its ledger linearly   *)
(* (monad = monad.record(...)), which the sequences above capture; a       *)
(* caller that keeps several Monad values sees the slices they share.      *)
(***************************************************************************)
MaxCap    == 3      \* largest capacity of a backing array
MaxArrays == 3      \* backing arrays allocated
MaxMonads == 4      \* Monad values obtained

EventNames == {"auth", "call"}

ZeroEvent == Event("", <<>>)

\* A []Event: pointer to a backing array (0: nil), length and capacity.
Slice(ptr, len, cap) == [ptr |-> ptr, len |-> len, cap |-> cap]

NilSlice == Slice(0, 0, 0)

ZeroSliceMonad == [ Events |-> NilSlice ]

\* The elements of a slice.
Elems(h, s) == IF s.ptr = 0 THEN <<>> ELSE SubSeq(h[s.ptr], 1, s.len)

\* make([]Event, len, cap) filled with the given elements.
new_array(elems, cap) == elems \o [ i \in 1..(cap - Len(elems)) |-> ZeroEvent ]

\* append(s, e): with spare capacity the element is written into the backing
\* array of s; otherwise a new, sufficiently large array is allocated (its
\* capacity, newcap, is the runtime's choice) and the elements are copied.
append(h, s, e, newcap) ==
    IF s.len < s.cap
    THEN [ heap  |-> [h EXCEPT ![s.ptr][s.len + 1] = e],
           slice |-> Slice(s.ptr, s.len + 1, s.cap) ]
    ELSE [ heap  |-> Append(h, new_array(Append(Elems(h, s), e), newcap)),
           slice |-> Slice(Len(h) + 1, s.len + 1, newcap) ]

\* func (m Monad) record(name, data) Monad, on slices: m is the receiver's
\* copy of the struct, m.Events shares its backing array with the original.
Monad_record(i, name, data, newcap) ==
    LET m == monads[i]
        a == append(heap, m.Events, Event(name, data), newcap)
    IN  /\ Len(monads) < MaxMonads
        /\ m.Events.len < MaxCap
        /\ newcap \in (m.Events.len + 1)..MaxCap
        /\ Len(a.heap) <= MaxArrays
        /\ heap' = a.heap
        /\ monads' = Append(monads, [ Events |-> a.slice ])

\* monad.Events = cp.Events after LoadCheckpoint: json.Unmarshal has grown
\* the slice it decoded the events into, to a capacity of its choice.
Monad_loaded(events, cap) ==
    /\ Len(monads) < MaxMonads
    /\ Len(heap) < MaxArrays
    /\ cap \in Len(events)..MaxCap
    /\ heap' = Append(heap, new_array(events, cap))
    /\ monads' = Append(monads, [ Events |-> Slice(Len(heap) + 1, Len(events), cap) ])

\* A variant of SaveCheckpoint: one path for the checkpoints of all runs.
SaveCheckpoint_one_path(fs, cp, outcome) ==
    [ r \in DOMAIN fs |-> json_MarshalIndent(cp) ]

\* func SaveCheckpoint(cp): the file after the call.  os.WriteFile either
\* writes all of data ("ok"), fails before it has opened the file
\* ("open_error") or fails after it has truncated it ("short_write"); the
\* error is printed and the caller goes on.
WriteOutcomes == {"ok", "open_error", "short_write"}

SaveCheckpoint(fs, cp, outcome) ==
    LET path == cp.RunID
        data == json_MarshalIndent(cp)
    IN  CASE outcome = "ok"          -> [fs EXCEPT ![path] = data]
          [] outcome = "open_error"  -> fs
          [] outcome = "short_write" -> [fs EXCEPT ![path] = BadFile]

\* A variant of LoadCheckpoint: a missing or unreadable file loads as an empty
\* checkpoint.
LoadCheckpoint_lenient(fs, runID) == [cp |-> fs[runID].cp, err |-> ""]

\* func LoadCheckpoint(runID) (*Checkpoint, error); err = "" stands for nil.
LoadCheckpoint(fs, runID) ==
    LET data == fs[runID]
    IN  IF ~data.exists THEN [cp |-> ZeroCheckpoint, err |-> "checkpoint not found"]
        ELSE IF ~data.parses THEN [cp |-> ZeroCheckpoint, err |-> "checkpoint parse error"]
        ELSE [cp |-> data.cp, err |-> ""]

\* A variant of DeleteCheckpoint: the file is kept and marked as completed.
retain_completed(fs, runID) ==
    [fs EXCEPT ![runID] = File(TRUE, [fs[runID].cp EXCEPT !.LastStep = "COMPLETED"],
                               NULL_HASH)]

\* func DeleteCheckpoint(runID)
DeleteCheckpoint(fs, runID) == [fs EXCEPT ![runID] = NoFile]

\* Authenticate of the three providers: the error, "" for nil.
Authenticate(providerName, token) ==
    CASE providerName = "mock"     -> IF token = "" THEN "missing token" ELSE ""
      [] providerName = "kilo"     -> IF token # "kilo-demo-token" THEN "invalid token" ELSE ""
      [] providerName = "flux-etl" -> IF token # fluxDemoToken
                                      THEN "flux-etl: invalid token" ELSE ""

\* Call of the three clients: the error, "" for nil.
Client_Call(providerName, payload) ==
    CASE providerName = "mock" -> ""
      [] providerName = "kilo" -> ""
      [] providerName = "flux-etl" ->
            IF payload.stage \in {"", "ingest", "transform", "export", "full"}
            THEN "" ELSE "flux-etl: unknown stage"

\* The "name:weight" pairs fmt.Sscanf reads out of weights.
parse_weights(weights) ==
    CASE weights = "gpt-fast:1" -> { [name |-> "gpt-fast", weight |-> 1] }
      [] OTHER -> {}

\* func selectModel(model, weights) string: the names it can return,
\* rand.Float64() being anything in [0, 1).
selectModel(model, weights) ==
    LET choices == parse_weights(weights)
    IN  IF weights = "" \/ \A c \in choices : c.weight <= 0
        THEN {model}
        ELSE { c.name : c \in { d \in choices : d.weight > 0 } }

\* The local variables of an invocation of Run, and pc, the section of Run
\* it executes next ("idle": not invoked, "done": returned result).
RunState(pc, model, providerName, token, payload, weights, resumeRunID, runID, monad, resumed, cp, chosenModel, result) ==
    [ pc |-> pc, model |-> model, providerName |-> providerName, token |-> token,
      payload |-> payload, weights |-> weights, resumeRunID |-> resumeRunID,
      runID |-> runID, monad |-> monad, resumed |-> resumed, cp |-> cp,
      chosenModel |-> chosenModel, result |-> result ]

IdleRun == RunState("idle", "", "", "", [stage |-> ""], "", "", "", ZeroMonad,
                    FALSE, ZeroCheckpoint, "", ZeroResult)

\* Run, sections 1 and 2: resolve the provider, choose the run id, load the
\* checkpoint named by resumeRunID.
Run_resume(p, model, providerName, token, payload, weights, resumeRunID) ==
    LET ok     == providerName \in Providers
        runID  == IF resumeRunID = "" THEN Sprintf_d(unix_nano) ELSE resumeRunID
        loaded == IF resumeRunID # "" THEN LoadCheckpoint(files, resumeRunID)
                  ELSE [cp |-> ZeroCheckpoint, err |-> "not asked"]
        resumed == loaded.err = ""
        monad  == IF resumed THEN [ Events |-> loaded.cp.Events ] ELSE ZeroMonad
    IN  /\ run[p].pc = "idle"
        /\ started < MaxRuns
        /\ started' = started + 1
        /\ run' = [run EXCEPT ![p] =
                IF ~ok
                THEN RunState("done", model, providerName, token, payload, weights,
                              resumeRunID, "", ZeroMonad, FALSE, ZeroCheckpoint, "",
                              Result(FALSE, <<"error", "unknown provider">>, <<>>, FALSE))
                ELSE RunState("auth", model, providerName, token, payload, weights,
                              resumeRunID, runID, monad, resumed, loaded.cp, "",
                              ZeroResult)]
        /\ unix_nano' = IF ok /\ resumeRunID = "" THEN unix_nano + 1 ELSE unix_nano
        /\ UNCHANGED files

\* A variant of the data of the "auth" event: the credential is recorded.
auth_data_with_token(r) == <<r.providerName, r.token>>

\* map[string]interface{}{"provider": providerName}
auth_data(r) == <<r.providerName>>

\* A variant of section 3: a failed authentication is recorded and saved as
\* a failed call is.
Run_auth_recording_failure(p, outcome) ==
    LET r      == run[p]
        err    == Authenticate(r.providerName, r.token)
        monad  == record(r.monad, "auth", auth_data(r))
        failed == record(r.monad, "auth_error", <<err>>)
    IN  /\ r.pc = "auth"
        /\ IF err # ""
           THEN /\ run' = [run EXCEPT ![p].pc = "done", ![p].monad = failed,
                                      ![p].result = Result(FALSE, <<"error", err>>,
                                                           failed.Events, r.resumed)]
                /\ files' = SaveCheckpoint(files,
                                Checkpoint(r.runID, r.providerName, r.model, r.payload,
                                           failed.Events, "auth_error"), outcome)
           ELSE /\ run' = [run EXCEPT ![p].pc = "model_select", ![p].monad = monad]
                /\ files' = SaveCheckpoint(files,
                                Checkpoint(r.runID, r.providerName, r.model, r.payload,
                                           monad.Events, "auth"), outcome)
        /\ UNCHANGED <<started, unix_nano>>

\* Run, section 3: authenticate, record "auth", save.
Run_auth(p, outcome) ==
    LET r     == run[p]
        err   == Authenticate(r.providerName, r.token)
        monad == record(r.monad, "auth", auth_data(r))
    IN  /\ r.pc = "auth"
        /\ IF err # ""
           THEN /\ run' = [run EXCEPT ![p].pc = "done",
                                      ![p].result = Result(FALSE, <<"error", err>>,
                                                           r.monad.Events, FALSE)]
                /\ UNCHANGED files
           ELSE /\ run' = [run EXCEPT ![p].pc = "model_select", ![p].monad = monad]
                /\ files' = SaveCheckpoint(files,
                                Checkpoint(r.runID, r.providerName, r.model, r.payload,
                                           monad.Events, "auth"), outcome)
        /\ UNCHANGED <<started, unix_nano>>

\* Run, section 4: select the model, record "model_select", save.
Run_model_select(p, chosenModel, outcome) ==
    LET r     == run[p]
        monad == record(r.monad, "model_select", <<r.model, chosenModel, r.weights>>)
    IN  /\ r.pc = "model_select"
        /\ chosenModel \in selectModel(r.model, r.weights)
        /\ run' = [run EXCEPT ![p].pc = "call", ![p].monad = monad,
                              ![p].chosenModel = chosenModel]
        /\ files' = SaveCheckpoint(files,
                        Checkpoint(r.runID, r.providerName, chosenModel, r.payload,
                                   monad.Events, "model_select"), outcome)
        /\ UNCHANGED <<started, unix_nano>>

\* Run, sections 5 and 6: call the provider; on an error record "call_error",
\* save and return; otherwise record "call", delete the checkpoint and return.
\* os.Remove can fail as os.WriteFile can ("open_error"); its error is dropped.
Run_call(p, outcome) ==
    LET r   == run[p]
        err == Client_Call(r.providerName, r.payload)
        failed == record(r.monad, "call_error", <<err>>)
        called == record(r.monad, "call", <<r.providerName, r.chosenModel>>)
    IN  /\ r.pc = "call"
        /\ IF err # ""
           THEN /\ run' = [run EXCEPT ![p].pc = "done", ![p].monad = failed,
                                      ![p].result = Result(FALSE, <<"error", err>>,
                                                           failed.Events, r.resumed)]
                /\ files' = SaveCheckpoint(files,
                                Checkpoint(r.runID, r.providerName, r.chosenModel,
                                           r.payload, failed.Events, "call_error"),
                                outcome)
           ELSE /\ outcome # "short_write"
                /\ run' = [run EXCEPT ![p].pc = "done", ![p].monad = called,
                                      ![p].result = Result(TRUE, <<"output", r.providerName>>,
                                                           called.Events, r.resumed)]
                /\ files' = IF outcome = "ok" THEN DeleteCheckpoint(files, r.runID)
                            ELSE files
        /\ UNCHANGED <<started, unix_nano>>

\* The process that invoked Run ends.
Run_exit(p) ==
    /\ run[p].pc = "done"
    /\ run' = [run EXCEPT ![p] = IdleRun]
    /\ UNCHANGED <<files, started, unix_nano>>

\* Somebody other than Run edits a stored checkpoint file: the directory is an
\* ordinary one.  The edits: the file replaced by a checkpoint written by
\* hand, carrying a digest of other content under the key "checkpoint_hash";
\* the last event of the stored checkpoint removed.
ForgedDigest == sha256([stage |-> "forged"], <<>>)

ForgedCheckpoint(runID) ==
    Checkpoint(runID, "mock", "gpt-demo", [stage |-> "full"],
               <<Event("auth", <<"mock">>)>>, "auth")

Edits(f, runID) ==
    (IF f.exists THEN {File(TRUE, ForgedCheckpoint(runID), ForgedDigest)} ELSE {})
    \cup (IF f.exists /\ f.parses /\ f.cp.Events # <<>>
          THEN {File(TRUE, [f.cp EXCEPT !.Events = SubSeq(@, 1, Len(@) - 1)],
                     f.checkpoint_hash)}
          ELSE {})

Tamper(runID, content) ==
    /\ content \in Edits(files[runID], runID)
    /\ files' = [files EXCEPT ![runID] = content]
    /\ UNCHANGED <<run, started, unix_nano>>

(***************************************************************************)
(* The orchestrator's processes.                                           *)
(***************************************************************************)
Resume ==
    \E p \in Procs, a \in Invocations, resumeRunID \in {""} \cup AllRunIDs :
        /\ Run_resume(p, a.model, a.providerName, a.token, a.payload, a.weights,
                      resumeRunID)
        /\ UNCHANGED <<store_vars, slice_vars, lib_vars>>

Auth ==
    \E p \in Procs, outcome \in WriteOutcomes :
        Run_auth(p, outcome) /\ UNCHANGED <<store_vars, slice_vars, lib_vars>>

ModelSelect ==
    \E p \in Procs, chosenModel \in Models \cup {"gpt-fast"}, outcome \in WriteOutcomes :
        Run_model_select(p, chosenModel, outcome) /\ UNCHANGED <<store_vars, slice_vars, lib_vars>>

CallProvider ==
    \E p \in Procs, outcome \in WriteOutcomes :
        Run_call(p, outcome) /\ UNCHANGED <<store_vars, slice_vars, lib_vars>>

Exit == \E p \in Procs : Run_exit(p) /\ UNCHANGED <<store_vars, slice_vars, lib_vars>>

Edit ==
    \E runID \in AllRunIDs :
      \E content \in Edits(files[runID], runID) :
        Tamper(runID, content) /\ UNCHANGED <<store_vars, slice_vars, lib_vars>>

(***************************************************************************)
(* Part III.  The error and validation packages (errors.go, validation.go).*)
(***************************************************************************)
LibCall(fn, args) == [fn |-> fn, args |-> args]

NoLibCall == LibCall("none", <<>>)

NoLibRet == [none |-> TRUE]

\* type ErrorClass string, and its constants.
ValidationError     == "VALIDATION_ERROR"
TransientError      == "TRANSIENT_ERROR"
TerminalError       == "TERMINAL_ERROR"
DataIsolationError  == "DATA_ISOLATION_ERROR"
CheckpointError     == "CHECKPOINT_ERROR"
AuthenticationError == "AUTHENTICATION_ERROR"
AuthorizationError  == "AUTHORIZATION_ERROR"

ErrorClasses ==
    { ValidationError, TransientError, TerminalError, DataIsolationError,
      CheckpointError, AuthenticationError, AuthorizationError }

\* ErrorClass is a string type: New takes values that are none of the constants.
OtherClasses == {"CUSTOM_ERROR"}

Codes == {"E1", "E2"}
Messages == {"m1", "m2"}
\* generateUUID(): "err-" and the clock reading.
ErrorIDs == {"err-1", "err-2"}

\* type FluxError struct (the fields New and the constructors set)
FluxError(ErrorID, Class, Code, Message, Context, Retryable, HTTPStatus) ==
    [ ErrorID |-> ErrorID, Class |-> Class, Code |-> Code, Message |-> Message,
      Context |-> Context, Retryable |-> Retryable, HTTPStatus |-> HTTPStatus ]

\* func New(class, code, message) *FluxError; errorID is what generateUUID()
\* returns.
New(class, code, message, errorID) ==
    LET httpStatus ==
            CASE class = ValidationError     -> 400
              [] class = TransientError      -> 503
              [] class = TerminalError       -> 500
              [] class = DataIsolationError  -> 403
              [] class = CheckpointError     -> 500
              [] class = AuthenticationError -> 401
              [] class = AuthorizationError  -> 403
              [] OTHER                       -> 500
        retryable ==
            CASE class = ValidationError     -> FALSE
              [] class = TransientError      -> TRUE
              [] class = TerminalError       -> FALSE
              [] class = DataIsolationError  -> FALSE
              [] class = CheckpointError     -> TRUE
              [] class = AuthenticationError -> FALSE
              [] class = AuthorizationError  -> FALSE
              [] OTHER                       -> FALSE
    IN  FluxError(errorID, class, code, message, <<>>, retryable, httpStatus)

\* The convenience constructors that take a code and a message.
ValidationFailed(code, message, errorID) == New(ValidationError, code, message, errorID)
Transient(code, message, errorID)        == New(TransientError, code, message, errorID)
Terminal(code, message, errorID)         == New(TerminalError, code, message, errorID)
CheckpointFailed(code, message, errorID) == New(CheckpointError, code, message, errorID)
Unauthorized(code, message, errorID)     == New(AuthenticationError, code, message, errorID)
Forbidden(code, message, errorID)        == New(AuthorizationError, code, message, errorID)

Constructors ==
    { "ValidationFailed", "Transient", "Terminal", "CheckpointFailed",
      "Unauthorized", "Forbidden" }

construct(name, code, message, errorID) ==
    CASE name = "ValidationFailed" -> ValidationFailed(code, message, errorID)
      [] name = "Transient"        -> Transient(code, message, errorID)
      [] name = "Terminal"         -> Terminal(code, message, errorID)
      [] name = "CheckpointFailed" -> CheckpointFailed(code, message, errorID)
      [] name = "Unauthorized"     -> Unauthorized(code, message, errorID)
      [] name = "Forbidden"        -> Forbidden(code, message, errorID)

\* func DataIsolationViolation(agency, accessor, resource) *FluxError
DataIsolationViolation(agency, accessor, resource, errorID) ==
    [ New(DataIsolationError, "AGENCY_BOUNDARY_CROSSED",
          "Access denied: data isolation policy violated", errorID)
      EXCEPT !.Context = <<agency, accessor, resource>> ]

\* A value of a map[string]interface{} under a key: no such key, a value that
\* is not a string, or a string.
Absent    == [exists |-> FALSE, isString |-> FALSE, str |-> ""]
NonString == [exists |-> TRUE,  isString |-> FALSE, str |-> ""]
Str(s)    == [exists |-> TRUE,  isString |-> TRUE,  str |-> s]

isValidAgency(agency) ==
    agency \in { "national-archives", "national-gallery-of-art",
                 "library-of-congress", "national-park-service", "nasa", "noaa",
                 "national-science-foundation",
                 "national-endowment-for-the-arts",
                 "national-endowment-for-the-humanities" }

isValidContentType(t) == t \in {"images", "documents", "text", "mixed"}

isValidUseCase(useCase) ==
    useCase \in { "vr", "ai-training", "research", "education", "preservation",
                  "accessibility", "public-engagement", "policy",
                  "economic-development", "national-security", "environmental",
                  "cultural", "historical", "scientific" }

isValidStage(stage) == stage \in {"ingest", "transform", "export", "full"}

\* The payloads: each field absent, not a string, a valid or an invalid string.
Payloads ==
    [ agency       : {Absent, NonString, Str("nasa"), Str("NASA")},
      content_type : {Absent, NonString, Str("text"), Str("video")},
      use_case     : {Absent, NonString, Str("vr"), Str("leisure")},
      stage        : {Absent, NonString, Str("full"), Str("bogus")} ]

requiredFields == <<"agency", "content_type", "use_case">>

field(payload, name) ==
    CASE name = "agency"       -> payload.agency
      [] name = "content_type" -> payload.content_type
      [] name = "use_case"     -> payload.use_case
      [] name = "stage"        -> payload.stage

\* func (sr *SchemaRegistry) ValidatePayload(payload) error: the error as
\* <<message, argument>>, <<>> for nil.
ValidatePayload(payload) ==
    LET missing == { i \in 1..Len(requiredFields) :
                        ~field(payload, requiredFields[i]).exists }
    IN  IF missing # {}
        THEN <<"missing required field", requiredFields[CHOOSE i \in missing :
                                               \A j \in missing : i <= j]>>
        ELSE IF ~payload.agency.isString THEN <<"agency must be a string">>
        ELSE IF ~isValidAgency(payload.agency.str)
             THEN <<"invalid agency", payload.agency.str>>
        ELSE IF ~payload.content_type.isString THEN <<"content_type must be a string">>
        ELSE IF ~isValidContentType(payload.content_type.str)
             THEN <<"invalid content_type", payload.content_type.str>>
        ELSE IF ~payload.use_case.isString THEN <<"use_case must be a string">>
        ELSE IF ~isValidUseCase(payload.use_case.str)
             THEN <<"invalid use_case", payload.use_case.str>>
        ELSE IF payload.stage.exists /\ ~payload.stage.isString
             THEN <<"stage must be a string">>
        ELSE IF payload.stage.exists /\ ~isValidStage(payload.stage.str)
             THEN <<"invalid stage", payload.stage.str>>
        ELSE <<>>

\* type ValidationResult struct
ValidationResult(Valid, Errors) == [Valid |-> Valid, Errors |-> Errors]

\* The errors ValidatePayloadStrict appends for one field, valid telling
\* whether the field's isValid function accepts its string.
strict_field_errors(v, name, valid) ==
    IF v.isString
    THEN IF ~valid THEN << <<"invalid " \o name, v.str>> >> ELSE <<>>
    ELSE IF v.exists THEN << <<name \o " must be a string">> >> ELSE <<>>

\* func ValidatePayloadStrict(payload) ValidationResult
ValidatePayloadStrict(payload) ==
    LET missing(i) ==
            IF ~field(payload, requiredFields[i]).exists
            THEN << <<"missing required field", requiredFields[i]>> >> ELSE <<>>
        errors ==
            missing(1) \o missing(2) \o missing(3)
            \o strict_field_errors(payload.agency, "agency",
                                   isValidAgency(payload.agency.str))
            \o strict_field_errors(payload.content_type, "content_type",
                                   isValidContentType(payload.content_type.str))
            \o strict_field_errors(payload.use_case, "use_case",
                                   isValidUseCase(payload.use_case.str))
    IN  ValidationResult(errors = <<>>, errors)

Mark ==
    \E p_run_id \in RunIds, p_status \in TerminalStatuses :
        mark_status(p_run_id, p_status) /\ UNCHANGED <<go_vars, slice_vars, lib_vars>>

StoreInit ==
    /\ checkpoints = {}
    /\ checkpoint_hashes = {}
    /\ audit_log = <<>>
    /\ now = 0
    /\ uuid_next = 1
    /\ call = NoCall
    /\ ret = NoRet

GoInit ==
    /\ files = [r \in AllRunIDs |-> NoFile]
    /\ run = [p \in Procs |-> IdleRun]
    /\ started = 0
    /\ unix_nano = 1

SliceInit ==
    /\ heap = <<>>
    /\ monads = <<ZeroSliceMonad>>

LibInit ==
    /\ lib_call = NoLibCall
    /\ lib_ret = NoLibRet

Init == StoreInit /\ GoInit /\ SliceInit /\ LibInit

\* The store and its callers.
Next == Save \/ Load \/ Validate \/ Cleanup \/ Tick

Spec == Init /\ [][Next]_vars

\* Runs of one provider that differ in the token they present.
Tokens == {fluxDemoToken, "other-token"}

TokenInvocations ==
    { Args("gpt-demo", "mock", token, [stage |-> "full"], "") : token \in Tokens }

TokenResume ==
    \E p \in Procs, a \in TokenInvocations, resumeRunID \in {""} \cup AllRunIDs :
        /\ Run_resume(p, a.model, a.providerName, a.token, a.payload, a.weights,
                      resumeRunID)
        /\ UNCHANGED <<store_vars, slice_vars, lib_vars>>

TokenNext == TokenResume \/ Auth \/ ModelSelect \/ CallProvider \/ Exit

TokenSpec == Init /\ [][TokenNext]_vars

\* The callers of Monad.record that keep the values it returned.
Record ==
    \E i \in 1..Len(monads), name \in EventNames, newcap \in 1..MaxCap :
        Monad_record(i, name, <<>>, newcap) /\ UNCHANGED <<store_vars, go_vars, lib_vars>>

Loaded ==
    \E name \in EventNames, cap \in 1..MaxCap :
        /\ Monad_loaded(<<Event("auth", <<>>), Event(name, <<>>)>>, cap)
        /\ UNCHANGED <<store_vars, go_vars, lib_vars>>

MonadNext == Record \/ Loaded

MonadSpec == Init /\ [][MonadNext]_vars

\* Run as a sequential function: once invoked, an invocation goes on to its
\* next section, Authenticate and Call returning.
Run_step(p) ==
    /\ \E outcome \in WriteOutcomes :
          \/ Run_auth(p, outcome)
          \/ \E chosenModel \in Models \cup {"gpt-fast"} :
                Run_model_select(p, chosenModel, outcome)
          \/ Run_call(p, outcome)
    /\ UNCHANGED <<store_vars, slice_vars, lib_vars>>

FairRunNext == Resume \/ Auth \/ ModelSelect \/ CallProvider \/ Exit

FairRunSpec ==
    Init /\ [][FairRunNext]_vars /\ \A p \in Procs : WF_vars(Run_step(p))

\* The callers of the two payload validators.
CallValidatePayload ==
    \E payload \in Payloads :
        /\ lib_call' = LibCall("ValidatePayload", payload)
        /\ lib_ret' = [err |-> ValidatePayload(payload)]
        /\ UNCHANGED <<store_vars, go_vars, slice_vars>>

CallValidatePayloadStrict ==
    \E payload \in Payloads :
        /\ lib_call' = LibCall("ValidatePayloadStrict", payload)
        /\ lib_ret' = ValidatePayloadStrict(payload)
        /\ UNCHANGED <<store_vars, go_vars, slice_vars>>

ValidationNext == CallValidatePayload \/ CallValidatePayloadStrict

ValidationSpec == Init /\ [][ValidationNext]_vars

\* The callers of the error constructors.
CallNew ==
    \E class \in ErrorClasses \cup OtherClasses, code \in Codes,
       message \in Messages, errorID \in ErrorIDs :
        /\ lib_call' = LibCall("New", <<class, code, message>>)
        /\ lib_ret' = New(class, code, message, errorID)
        /\ UNCHANGED <<store_vars, go_vars, slice_vars>>

CallConstructor ==
    \E name \in Constructors, code \in Codes, message \in Messages,
       errorID \in ErrorIDs :
        /\ lib_call' = LibCall(name, <<code, message>>)
        /\ lib_ret' = construct(name, code, message, errorID)
        /\ UNCHANGED <<store_vars, go_vars, slice_vars>>

CallDataIsolationViolation ==
    \E agency \in Agencies, accessor \in Agencies, errorID \in ErrorIDs :
        /\ lib_call' = LibCall("DataIsolationViolation", <<agency, accessor, "checkpoint">>)
        /\ lib_ret' = DataIsolationViolation(agency, accessor, "checkpoint", errorID)
        /\ UNCHANGED <<store_vars, go_vars, slice_vars>>

ErrorsNext == CallNew \/ CallConstructor \/ CallDataIsolationViolation

ErrorsSpec == Init /\ [][ErrorsNext]_vars

\* The store over a longer history: saves of one user with honest digests,
\* the retention job and the clock.
RetentionSaveInputs ==
    { x \in SaveInputs : /\ x.user_id = "alice"
                         /\ x.checkpoint_hash = sha256(x.snap.payload, x.snap.events) }

RetentionSave ==
    /\ Len(audit_log) < MaxRetentionAudit
    /\ uuid_next <= MaxIds
    /\ \E x \in RetentionSaveInputs : save(x) /\ UNCHANGED <<go_vars, slice_vars, lib_vars>>

RetentionCleanup ==
    /\ Len(audit_log) < MaxRetentionAudit
    /\ cleanup_expired_checkpoints
    /\ UNCHANGED <<go_vars, slice_vars, lib_vars>>

RetentionNext == RetentionSave \/ RetentionCleanup \/ Tick

RetentionSpec == Init /\ [][RetentionNext]_vars

\* Concurrent runs over both stores: the runs that go through and the ones
\* whose provider call fails, and the saves of one user.
ConcurrentInvocations ==
    { a \in Invocations : a.providerName = "flux-etl" /\ a.token = fluxDemoToken
                            /\ a.weights = "" }

ConcurrentResume ==
    \E p \in Procs, a \in ConcurrentInvocations, resumeRunID \in {""} \cup AllRunIDs :
        /\ Run_resume(p, a.model, a.providerName, a.token, a.payload, a.weights,
                      resumeRunID)
        /\ UNCHANGED <<store_vars, slice_vars, lib_vars>>

ConcurrentSaveInputs ==
    { x \in RetentionSaveInputs : x.agency_id = "nasa" /\ x.snap.payload = "p1" }

ConcurrentSave ==
    /\ Len(audit_log) < MaxAudit
    /\ uuid_next <= MaxIds
    /\ \E x \in ConcurrentSaveInputs : save(x) /\ UNCHANGED <<go_vars, slice_vars, lib_vars>>

ConcurrentNext ==
    \/ ConcurrentResume \/ Auth \/ ModelSelect \/ CallProvider
    \/ ConcurrentSave

ConcurrentSpec == Init /\ [][ConcurrentNext]_vars

\* The store with the clients that mark runs completed or failed.
StatusNext == Save \/ Load \/ Mark

StatusSpec == Init /\ [][StatusNext]_vars

\* The orchestrator and the directory of checkpoint files.
RunNext == Resume \/ Auth \/ ModelSelect \/ CallProvider \/ Exit \/ Edit

RunSpec == Init /\ [][RunNext]_vars

(***************************************************************************)
(* Properties of the checkpoint store (specification Spec).                *)
(***************************************************************************)

\* The rows a load for (p_run_id, p_agency_id) is entitled to: the run id,
\* the caller's tenant, not expired.
own_live_rows(p_run_id, p_agency_id) ==
    { c \in checkpoints : /\ c.run_id = p_run_id
                          /\ c.agency_id = p_agency_id
                          /\ c.expires_at > now }

\* The rows with p_run_id that belong to a tenant other than p_agency_id.
foreign_rows(p_run_id, p_agency_id) ==
    { c \in checkpoints : c.run_id = p_run_id /\ c.agency_id # p_agency_id }

\* The arguments of the save that a step from the current state may be: a
\* save records its run id and tenant in call.
saves_of_step ==
    IF call'.fn = "save"
    THEN { x \in SaveInputs : x.run_id = call'.run_id /\ x.agency_id = call'.agency_id }
    ELSE {}

\* C2: in every store state, for every run id and caller tenant, load returns
\* at most one checkpoint, and only one that is the content of a row with that
\* run id whose tenant is the caller's and which has not expired; when there
\* is no such row it returns no row, and a caller whose session is not bound
\* to another tenant gets the row whenever there is one.
C2_LoadOnlyOwnLiveRow ==
    [][ \A session \in Sessions, p_run_id \in RunIds, p_agency_id \in Agencies :
          load_checkpoint(session, p_run_id, p_agency_id) =>
            LET live == own_live_rows(p_run_id, p_agency_id)
            IN  /\ Cardinality(ret'.rows) <= 1
                /\ \A o \in ret'.rows :
                     \E c \in live : /\ o.id = c.id
                                     /\ o.payload = c.payload
                                     /\ o.events = c.events
                                     /\ o.last_step = c.last_step
                                     /\ o.checkpoint_hash = c.checkpoint_hash
                /\ (live = {} => ret'.rows = {})
                /\ (live # {} /\ session \in {OWNER, p_agency_id} => ret'.rows # {})
      ]_vars

\* A load has returned a tenant's checkpoint while the store also holds a row
\* of another tenant.
C2_Witness ==
    /\ call.fn = "load"
    /\ ret.rows # {}
    /\ \E c \in checkpoints : c.agency_id # call.agency_id

\* The store without the rows of p_run_id that belong to other tenants than
\* p_agency_id, and without the hash rows that go with them.
without_foreign(p_run_id, p_agency_id) ==
    [ tbl    |-> checkpoints \ foreign_rows(p_run_id, p_agency_id),
      hashes |-> { h \in checkpoint_hashes :
                     \A c \in foreign_rows(p_run_id, p_agency_id) :
                        h.checkpoint_id # c.id } ]

\* C3: for every run id and tenant B, what load(run_id, B) returns in the
\* store is what it returns in the store that differs from it only in having
\* no row for run_id under another tenant: a row of another tenant is
\* indistinguishable from a nonexistent row.
C3_ForeignRowIndistinguishable ==
    \A session \in Sessions, p_run_id \in RunIds, p_agency_id \in Agencies :
        load_query(checkpoints, checkpoint_hashes, session, p_run_id, p_agency_id)
        = load_query(without_foreign(p_run_id, p_agency_id).tbl,
                     without_foreign(p_run_id, p_agency_id).hashes,
                     session, p_run_id, p_agency_id)

\* A load has asked for a run id whose live row belongs to another tenant, and
\* got no row.
C3_Witness ==
    /\ call.fn = "load"
    /\ ret.rows = {}
    /\ \E c \in foreign_rows(call.run_id, call.agency_id) : c.expires_at > now

\* C4: every load under a tenant of a run id whose row belongs to another
\* tenant returns no row and appends an entry to the audit log.
C4_CrossTenantLoadAudited ==
    [][ \A session \in Sessions, p_run_id \in RunIds, p_agency_id \in Agencies :
          ( /\ load_checkpoint(session, p_run_id, p_agency_id)
            /\ foreign_rows(p_run_id, p_agency_id) # {} )
          => /\ ret'.rows = {}
             /\ Len(audit_log') = Len(audit_log) + 1
             /\ audit_log'[Len(audit_log')].agency_id = p_agency_id
             /\ audit_log'[Len(audit_log')].action \notin {"CREATE", "CLEANUP"}
      ]_vars

\* C5: a save for a run id whose row belongs to another tenant than the one
\* the save names is rejected and leaves the table, and with it the row's
\* payload, events, last_step and checkpoint_hash, unchanged.
C5_CrossTenantSaveRejected ==
    [][ \A x \in saves_of_step :
          (save(x) /\ foreign_rows(x.run_id, x.agency_id) # {})
          => ret'.raised /\ checkpoints' = checkpoints
      ]_vars

\* A save has named a run id whose row belongs to another tenant, and returned.
cross_tenant_save_returned ==
    /\ call.fn = "save"
    /\ ~ret.raised
    /\ foreign_rows(call.run_id, call.agency_id) # {}

\* C6: across every step of save, load, validate and cleanup, a row that
\* stays in the table keeps its tenant, and so does the row of a run id that
\* has one before and after the step: tenant_id never changes while the row
\* exists.
C6_TenantNeverChanges ==
    [][ \A c \in checkpoints : \A d \in checkpoints' :
          (d.id = c.id \/ d.run_id = c.run_id) => d.agency_id = c.agency_id
      ]_vars

\* A save naming another tenant than the row's has gone through, and the row
\* carries the content it brought.
C6_Witness ==
    /\ cross_tenant_save_returned
    /\ \E c \in checkpoints : c.id = ret.id /\ c.updated_at > c.created_at

\* C7: the table holds at most one row per run id, and a save on a run id
\* that has a row updates that row and returns its id, the id the creating
\* save returned.
C7_OneRowPerRunId ==
    [][ /\ \A c \in checkpoints' : \A d \in checkpoints' : c.run_id = d.run_id => c = d
        /\ \A x \in saves_of_step :
             (save(x) /\ ~ret'.raised) =>
               \A c \in checkpoints : c.run_id = x.run_id =>
                  /\ ret'.id = c.id
                  /\ Cardinality(checkpoints') = Cardinality(checkpoints)
                  /\ \E d \in checkpoints' : /\ d.id = c.id
                                             /\ d.created_at = c.created_at
                                             /\ d.payload = x.snap.payload
                                             /\ d.events = x.snap.events
                                             /\ d.last_step = x.snap.last_step
                                             /\ d.checkpoint_hash = x.checkpoint_hash
      ]_vars

\* A save of the row's own tenant has updated a row created at an earlier
\* time, and returned its id.
C7_Witness ==
    /\ call.fn = "save"
    /\ ~ret.raised
    /\ \E c \in checkpoints : /\ c.id = ret.id
                              /\ c.agency_id = call.agency_id
                              /\ c.created_at < c.updated_at

\* C8: every save that returns on a run id that has a row increases the
\* row's checkpoint_version by exactly 1.
C8_VersionIncrements ==
    [][ \A x \in saves_of_step :
          (save(x) /\ ~ret'.raised) =>
            \A c \in checkpoints : c.run_id = x.run_id =>
               \E d \in checkpoints' : /\ d.id = c.id
                                        /\ d.checkpoint_version = c.checkpoint_version + 1
      ]_vars

\* C9: a save that returns for a run id without a row adds exactly one row
\* to the table, with status PENDING and checkpoint_version 1, holding the
\* given tenant, payload, events, last_step and hash, and returns its id.
C9_SaveCreatesPendingRow ==
    [][ \A x \in saves_of_step :
          (save(x) /\ ~ret'.raised /\ \A c \in checkpoints : c.run_id # x.run_id) =>
            \E d \in checkpoints' :
               /\ d \notin checkpoints
               /\ checkpoints' = checkpoints \cup {d}
               /\ d.id = ret'.id
               /\ d.run_id = x.run_id
               /\ d.status = "PENDING"
               /\ d.checkpoint_version = 1
               /\ d.agency_id = x.agency_id
               /\ d.payload = x.snap.payload
               /\ d.events = x.snap.events
               /\ d.last_step = x.snap.last_step
               /\ d.checkpoint_hash = x.checkpoint_hash
      ]_vars

\* A save has created a second row: the audit log has one entry about the
\* id it returned, and the table two rows.
C9_Witness ==
    /\ call.fn = "save"
    /\ ~ret.raised
    /\ Cardinality(checkpoints) = 2
    /\ Cardinality({ i \in 1..Len(audit_log) : audit_log[i].resource_id = ret.id }) = 1
    /\ \E c \in checkpoints : c.id = ret.id /\ c.created_at = now

\* The audit entries save writes.
is_save_audit(e) == e.action = "CREATE" /\ e.resource_type = "checkpoint"

\* C10: the checkpoint write and its audit entry are one atomic unit.  A save
\* that raises leaves flux.checkpoints and flux.audit_log unchanged; a save
\* that returns has written the row whose id it returns and appended exactly
\* one save-audit entry about that id; no other operation appends a
\* save-audit entry.  So the number of save-audit entries about a checkpoint
\* is the number of successful save mutations of it.
C10_WriteAndAuditAtomic ==
    [][ /\ \A x \in saves_of_step :
             save(x) =>
               IF ret'.raised
               THEN checkpoints' = checkpoints /\ audit_log' = audit_log
               ELSE /\ Len(audit_log') = Len(audit_log) + 1
                    /\ SubSeq(audit_log', 1, Len(audit_log)) = audit_log
                    /\ is_save_audit(audit_log'[Len(audit_log')])
                    /\ audit_log'[Len(audit_log')].resource_id = ret'.id
                    /\ \E d \in checkpoints' : /\ d.id = ret'.id
                                               /\ d.run_id = x.run_id
                                               /\ d.payload = x.snap.payload
                                               /\ d.events = x.snap.events
                                               /\ d.checkpoint_hash = x.checkpoint_hash
        /\ call'.fn # "save" =>
             SelectSeq(audit_log', is_save_audit) = SelectSeq(audit_log, is_save_audit)
      ]_vars

\* A save on a run id that has a row has raised after its upsert, in the
\* INSERT into flux.audit_log, and the row is as it was.
C10_Witness ==
    /\ call.fn = "save"
    /\ ret.raised
    /\ \E c \in checkpoints :
          /\ c.run_id = call.run_id
          /\ c.payload # NULL
          /\ Cardinality({ i \in 1..Len(audit_log) : audit_log[i].resource_id = c.id }) = 1

(***************************************************************************)
(* Properties of the orchestrator (specification RunSpec).                 *)
(***************************************************************************)

\* The file holds a checkpoint and a digest, and the digest recomputed from
\* the checkpoint's payload and events differs from the one the file holds.
digest_mismatch(f) ==
    /\ f.exists
    /\ f.parses
    /\ f.checkpoint_hash # NULL_HASH
    /\ f.checkpoint_hash # sha256(f.cp.Payload, f.cp.Events)

\* C1: for every resume attempt, if the digest recomputed from the loaded
\* payload and events differs from the stored checkpoint_hash, the run ends
\* in failure at the load: it does not go on to a step, and the result it
\* returns carries no event beyond the loaded ones.
C1_DigestMismatchAborts ==
    [][ started' # started =>
          \A p \in Procs, a \in Invocations, resumeRunID \in AllRunIDs :
            ( /\ digest_mismatch(files[resumeRunID])
              /\ Run_resume(p, a.model, a.providerName, a.token, a.payload,
                            a.weights, resumeRunID) )
            => /\ run'[p].pc = "done"
               /\ ~run'[p].result.Success
               /\ run'[p].result.Events = files[resumeRunID].cp.Events
      ]_vars

(***************************************************************************)
(* Further properties of the checkpoint store (specification Spec).        *)
(***************************************************************************)

\* C11: in every reachable state the stored checkpoint_hash of every row is
\* the hash of the row's current payload and events, so that recomputing the
\* hash from what load returns gives the checkpoint_hash it returns.
C11_StoredHashIsContentHash ==
    \A c \in checkpoints : c.checkpoint_hash = sha256(c.payload, c.events)

\* s is t cut short: a strict prefix of t.
IsStrictPrefix(s, t) ==
    /\ Len(s) < Len(t)
    /\ SubSeq(t, 1, Len(s)) = s

\* C12: across every save that returns on a run id that has a row, the events
\* the row held before the save are a strict prefix of the events it holds
\* after it: no persisted event is altered or removed.
C12_EventsOnlyGrow ==
    [][ \A x \in saves_of_step :
          (save(x) /\ ~ret'.raised) =>
            \A c \in checkpoints : c.run_id = x.run_id =>
               \A d \in checkpoints' : d.id = c.id =>
                  IsStrictPrefix(c.events, d.events)
      ]_vars

(***************************************************************************)
(* Properties of the run status (specification StatusSpec).                *)
(***************************************************************************)

\* C13: once the status of a run is COMPLETED or FAILED, every further save
\* and every further marking against its run id is rejected and leaves the
\* row unchanged.
C13_NoResurrection ==
    [][ \A c \in checkpoints :
          (c.status \in TerminalStatuses /\ call'.fn \in {"save", "mark"}
             /\ call'.run_id = c.run_id)
          => c \in checkpoints' /\ (call'.fn = "save" => ret'.raised)
      ]_vars

(***************************************************************************)
(* Properties of retention (specification RetentionSpec).                  *)
(***************************************************************************)
expired_rows == { c \in checkpoints : c.expires_at < now }

\* C14: a cleanup deletes every row whose expires_at is before the current
\* time, deletes no other row, and returns the number of rows it deleted.
C14_CleanupDeletesExactlyExpired ==
    [][ call'.fn = "cleanup" =>
          /\ checkpoints' = checkpoints \ expired_rows
          /\ ret'.count = Cardinality(expired_rows) ]_vars

\* A cleanup has deleted one row and kept another; one of the rows it kept
\* expires at the very time of the call.
C14_Witness ==
    /\ call.fn = "cleanup"
    /\ ret.count = 1
    /\ \E c \in checkpoints : c.expires_at = now

\* The columns of an audit entry that can hold a number of rows.
carries(e, n) ==
    ToString(n) \in {e.resource_id, e.error_code, e.before_state, e.after_state}

\* C15: each cleanup appends exactly one CLEANUP audit entry, whatever the
\* number of rows it deleted, and that entry carries the number of rows the
\* call deleted.
C15_OneCleanupEntryWithCount ==
    [][ call'.fn = "cleanup" =>
          /\ Len(audit_log') = Len(audit_log) + 1
          /\ SubSeq(audit_log', 1, Len(audit_log)) = audit_log
          /\ audit_log'[Len(audit_log')].action = "CLEANUP"
          /\ carries(audit_log'[Len(audit_log')], Cardinality(expired_rows)) ]_vars

\* C16: every successful save on an existing row moves its expires_at to
\* RetentionDays after the new updated_at.
C16_SaveRenewsExpiry ==
    [][ \A x \in saves_of_step :
          (save(x) /\ ~ret'.raised) =>
            \A c \in checkpoints : c.run_id = x.run_id =>
               \A d \in checkpoints' : d.id = c.id =>
                  d.expires_at = d.updated_at + RetentionDays ]_vars

\* The saves of a checkpoint that reported success: each wrote one audit
\* entry about the id it returned.
successful_writes(id) ==
    Cardinality({ i \in 1..Len(audit_log) :
                    is_save_audit(audit_log[i]) /\ audit_log[i].resource_id = id })

\* C17: after any interleaving of the saves of several callers on one run id
\* there is one row for the run id, and its checkpoint_version is the number
\* of writes that reported success.
C17_ConcurrentSavesCounted ==
    \A c \in checkpoints :
        /\ \A d \in checkpoints : d.run_id = c.run_id => d = c
        /\ c.checkpoint_version = successful_writes(c.id)

(***************************************************************************)
(* Properties of a resumed run (specification RunSpec).                    *)
(***************************************************************************)
\* The fixed order of the steps of a run, and the steps after step s.
StepOrder == <<"auth", "model_select", "call">>

steps_after(s) ==
    LET i == CHOOSE k \in 1..Len(StepOrder) : StepOrder[k] = s
    IN  SubSeq(StepOrder, i + 1, Len(StepOrder))

event_names(events) == [ i \in 1..Len(events) |-> events[i].Name ]

\* C18: a run that resumed from a checkpoint whose last step is s and went
\* through to success executed only the steps after s: the events of its
\* result are the events of the checkpoint followed by one event for each
\* step after s.
C18_ResumeSkipsCompletedSteps ==
    \A p \in Procs :
        LET r == run[p]
        IN  (r.pc = "done" /\ r.resumed /\ r.result.Success
               /\ r.cp.LastStep \in {"auth", "model_select"})
            => event_names(r.result.Events)
                 = event_names(r.cp.Events) \o steps_after(r.cp.LastStep)

\* C19: the result of a run that loaded a checkpoint has Resumed = TRUE and
\* the result of a run that did not has Resumed = FALSE, whichever way the
\* run ended.
C19_ResumedOnEveryExit ==
    \A p \in Procs :
        run[p].pc = "done" => run[p].result.Resumed = run[p].resumed

\* A step of process p whose checkpoint write may have failed.
failed_save_step(p) ==
    \E outcome \in WriteOutcomes \ {"ok"} :
        \/ /\ run[p].pc = "auth"
           /\ Authenticate(run[p].providerName, run[p].token) = ""
           /\ Run_auth(p, outcome)
        \/ /\ run[p].pc = "model_select"
           /\ \E chosenModel \in selectModel(run[p].model, run[p].weights) :
                 Run_model_select(p, chosenModel, outcome)

\* C20: when the checkpoint write of a step fails, the run stops before the
\* next step and its result reports the failure.
C20_StopsAtFailedSave ==
    [][ \A p \in Procs :
          failed_save_step(p) =>
            /\ run'[p].pc = "done"
            /\ ~run'[p].result.Success ]_vars

(***************************************************************************)
(* Properties of the end of a run (specification RunSpec).                 *)
(***************************************************************************)
\* The step of process p that returns success.
success_step(p) ==
    /\ run[p].pc = "call"
    /\ run'[p].pc = "done"
    /\ run'[p].result.Success

C22_NoFileAfterSuccess ==
    [][ \A p \in Procs :
          success_step(p) => ~files'[run[p].runID].exists ]_vars

\* The step of process p that returns the error of one of the steps of Run.
step_error(p) ==
    /\ run[p].pc \in {"auth", "model_select", "call"}
    /\ run'[p].pc = "done"
    /\ ~run'[p].result.Success

\* C23: when a step returns an error, Run appends an error event, saves a
\* checkpoint containing that event, and returns a failed Result carrying
\* the error and the events; the checkpoint stays in the directory.
C23_StepErrorRecordedAndSaved ==
    [][ \A p \in Procs :
          step_error(p) =>
            LET events == run'[p].result.Events
                n      == Len(run[p].monad.Events)
            IN  /\ run'[p].result.Output[1] = "error"
                /\ Len(events) = n + 1
                /\ SubSeq(events, 1, n) = run[p].monad.Events
                /\ events[n + 1].Name \notin {"auth", "model_select", "call"}
                /\ files'[run[p].runID].exists
                /\ files'[run[p].runID].cp.Events = events ]_vars

\* The step of process p that completes one of the steps of Run.
step_boundary(p) ==
    \/ run[p].pc = "auth" /\ run'[p].pc = "model_select"
    \/ run[p].pc = "model_select" /\ run'[p].pc = "call"
    \/ success_step(p)

\* C24: at every step boundary, the last one included, the events of the
\* checkpoint file of the run id are the events of the ledger in memory.
C24_PersistedEqualsLedger ==
    [][ \A p \in Procs :
          step_boundary(p) =>
            /\ files'[run[p].runID].exists
            /\ files'[run[p].runID].cp.Events = run'[p].monad.Events ]_vars

(***************************************************************************)
(* Properties of the ledger (specification MonadSpec).                     *)
(***************************************************************************)
\* C25: record on a ledger value m returns a ledger whose events are the
\* events of m followed by the new event, and the events of m and of every
\* ledger value obtained before are what they were.
C25_RecordLeavesValuesUnchanged ==
    [][ \A i \in 1..Len(monads), name \in EventNames, newcap \in 1..MaxCap :
          Monad_record(i, name, <<>>, newcap) =>
            /\ Elems(heap', monads'[Len(monads')].Events)
                 = Append(Elems(heap, monads[i].Events), Event(name, <<>>))
            /\ \A j \in 1..Len(monads) :
                 Elems(heap', monads'[j].Events) = Elems(heap, monads[j].Events) ]_vars

(***************************************************************************)
(* Properties of the audit log (specification Spec).                       *)
(***************************************************************************)
\* C26: no operation of the store updates or deletes an audit entry: the
\* audit log before a step is a prefix of the audit log after it.
C26_AuditLogAppendOnly ==
    [][ /\ Len(audit_log') >= Len(audit_log)
        /\ SubSeq(audit_log', 1, Len(audit_log)) = audit_log ]_vars

\* A save and then a cleanup have each written their entry.
C26_Witness ==
    /\ Len(audit_log) = 2
    /\ audit_log[1].action = "CREATE"
    /\ audit_log[2].action = "CLEANUP"

(***************************************************************************)
(* Further properties of save (specification Spec).                        *)
(***************************************************************************)
\* C27: the payload stored for a run id never changes after the save that
\* created the row.
C27_PayloadImmutable ==
    [][ \A c \in checkpoints :
          \A d \in checkpoints' : d.id = c.id => d.payload = c.payload ]_vars

(***************************************************************************)
(* Properties of a fresh run (specification RunSpec).                      *)
(***************************************************************************)
\* The event names of the results of a run that started at the first step.
FreshLedgers ==
    { <<>>,
      <<"auth", "model_select", "call">>,
      <<"auth", "model_select", "call_error">> }

\* C28: a run for which no resume is requested, or whose checkpoint file is
\* not found, starts with an empty ledger and resumed = FALSE; the Result of a
\* run that did not resume has Resumed = FALSE and its events start at the
\* first step.
C28_FreshRunStartsAtFirstStep ==
    [][ \A p \in Procs :
          /\ (run[p].pc = "idle" /\ run'[p].pc = "auth"
                /\ (run'[p].resumeRunID = "" \/ ~files[run'[p].resumeRunID].exists))
             => (run'[p].monad.Events = <<>> /\ ~run'[p].resumed)
          /\ (run[p].pc \in {"auth", "model_select", "call"} /\ run'[p].pc = "done"
                /\ ~run[p].resumed)
             => /\ ~run'[p].result.Resumed
                /\ event_names(run'[p].result.Events) \in FreshLedgers ]_vars

\* A resume was requested, no checkpoint was found, and the run went through
\* its three steps.
C28_Witness ==
    \E p \in Procs :
        /\ run[p].pc = "done"
        /\ run[p].resumeRunID # ""
        /\ ~run[p].resumed
        /\ run[p].result.Success
        /\ event_names(run[p].result.Events) = <<"auth", "model_select", "call">>

(***************************************************************************)
(* Properties of concurrent runs (specification ConcurrentSpec).           *)
(***************************************************************************)
\* C29: runs with distinct run ids do not interfere.  A save for a run id
\* leaves the rows of every other run id as they were, and a step of a run
\* (resume, save, delete on success) leaves the checkpoint files of every
\* other run id as they were, under every interleaving.
C29_DistinctRunsDoNotInterfere ==
    [][ /\ call'.fn = "save" =>
              \A c \in checkpoints : c.run_id # call'.run_id => c \in checkpoints'
        /\ \A p \in Procs :
              run'[p] # run[p] =>
                \A runID \in AllRunIDs :
                    runID # run'[p].runID => files'[runID] = files[runID] ]_vars

\* Two runs with different run ids each have their checkpoint file, and two
\* run ids each have their row.
C29_Witness ==
    /\ \E p, q \in Procs :
          /\ run[p].runID # run[q].runID
          /\ run[p].pc = "call" /\ run[q].pc = "call"
          /\ files[run[p].runID].exists /\ files[run[q].runID].exists
    /\ \E c, d \in checkpoints : c.run_id # d.run_id

(***************************************************************************)
(* Properties of the credential (specification TokenSpec).                 *)
(***************************************************************************)
\* Two invocations that differ at most in the token.
same_but_token(r, s) ==
    /\ r.model = s.model /\ r.providerName = s.providerName
    /\ r.payload = s.payload /\ r.weights = s.weights

\* The fields of a checkpoint other than the run id.
content(cp) == <<cp.ProviderName, cp.Model, cp.Payload, cp.Events, cp.LastStep>>

\* C30: no event and no checkpoint field depends on the token.  Two runs
\* that differ only in the token, both accepted, that started from the same
\* ledger and are at the same step have recorded the same events and return
\* the same events; two checkpoint files of such runs that hold events of the
\* same names hold the same content.
C30_TokenNotRecorded ==
    /\ \A p, q \in Procs :
          (/\ run[p].pc = run[q].pc /\ run[p].pc # "idle"
           /\ same_but_token(run[p], run[q])
           /\ run[p].cp.Events = run[q].cp.Events)
          => /\ run[p].monad.Events = run[q].monad.Events
             /\ run[p].result.Events = run[q].result.Events
    /\ \A i, j \in AllRunIDs :
          (/\ files[i].exists /\ files[i].parses
           /\ files[j].exists /\ files[j].parses
           /\ event_names(files[i].cp.Events) = event_names(files[j].cp.Events))
          => content(files[i].cp) = content(files[j].cp)

\* Two runs that presented different tokens have both recorded their events
\* and saved their checkpoints.
C30_Witness ==
    \E p, q \in Procs :
        /\ run[p].token # run[q].token
        /\ run[p].pc = "call" /\ run[q].pc = "call"
        /\ run[p].runID # run[q].runID
        /\ files[run[p].runID].parses /\ files[run[q].runID].parses
        /\ event_names(files[run[p].runID].cp.Events)
             = event_names(files[run[q].runID].cp.Events)

(***************************************************************************)
(* Properties of the error constructors (specification ErrorsSpec).        *)
(***************************************************************************)
\* C31: an error built by New, directly or by a constructor, is Retryable
\* exactly when its class is TRANSIENT_ERROR.
C31_RetryableOnlyTransient ==
    lib_call.fn # "none" =>
        (lib_ret.Retryable <=> lib_ret.Class = TransientError)

(***************************************************************************)
(* Properties of the integrity verification (specification Spec).          *)
(***************************************************************************)
\* C32: for every existing checkpoint and every hash, the verification
\* returns TRUE exactly when the hash is the stored checkpoint_hash, leaves
\* one integrity record for the checkpoint, holding the hash as
\* verified_hash and the returned value as integrity_valid, and leaves the
\* table of checkpoints as it was.
C32_VerifyComparesAndRecords ==
    [][ call'.fn = "validate" =>
          \A c \in checkpoints, h \in VerifyDigests \ {NULL_HASH} :
             validate_checkpoint_integrity(c.id, h) =>
               /\ ~ret'.raised
               /\ ret'.valid = (h = c.checkpoint_hash)
               /\ checkpoints' = checkpoints
               /\ \E r \in checkpoint_hashes' :
                     /\ r.checkpoint_id = c.id
                     /\ r.verified_hash = h
                     /\ r.integrity_valid = ret'.valid
                     /\ \A q \in checkpoint_hashes' : q.checkpoint_id = c.id => q = r
      ]_vars

\* A repeated verification of a checkpoint has found a mismatch.
C32_Witness ==
    /\ call.fn = "validate"
    /\ ~ret.raised /\ ~ret.valid
    /\ \E c \in checkpoints, r \in checkpoint_hashes :
          /\ r.checkpoint_id = c.id
          /\ r.mismatch_detected_at # NULL_TS
          /\ r.verified_hash # c.checkpoint_hash

\* C33: in every integrity record hash_mismatch_detected is the negation of
\* integrity_valid, and mismatch_detected_at is set exactly when
\* hash_mismatch_detected is TRUE.
C33_MismatchFieldsConsistent ==
    \A r \in checkpoint_hashes :
        /\ r.hash_mismatch_detected = ~r.integrity_valid
        /\ (r.mismatch_detected_at # NULL_TS) = r.hash_mismatch_detected

\* C34: whenever load returns is_valid = TRUE, the checkpoint_hash it returns
\* is the hash the last verification of the checkpoint compared and found
\* equal, and the computed_hash of the integrity record is that hash.
C34_ValidMeansVerifiedContent ==
    [][ call'.fn = "load" =>
          \A row \in ret'.rows :
             row.is_valid = sql_bool(TRUE) =>
               \E r \in checkpoint_hashes :
                  /\ r.checkpoint_id = row.id
                  /\ r.verified_hash = row.checkpoint_hash
                  /\ r.computed_hash = row.checkpoint_hash ]_vars

(***************************************************************************)
(* Properties of expiry (specification Spec).                              *)
(***************************************************************************)
\* C35: at any instant every row is exactly one of: returned by a load of
\* its run id under its own tenant, or deleted by a cleanup run at that
\* instant.
C35_LoadableOrExpired ==
    \A c \in checkpoints :
        LET loadable == load_query(checkpoints, checkpoint_hashes, OWNER,
                                   c.run_id, c.agency_id) # {}
            deleted  == cleanup_where(c)
        IN  loadable = ~deleted

C37_EarlyFailureTouchesNothing ==
    [][ \A p \in Procs :
          (run[p].pc \in {"idle", "auth"} /\ run'[p].pc = "done")
          => /\ files' = files
             /\ ~run'[p].result.Success
             /\ run'[p].result.Events
                  = IF run'[p].resumed THEN run'[p].cp.Events ELSE <<>> ]_vars

\* A run that loaded a checkpoint has failed at authentication; the file is
\* still there.
C37_Witness ==
    \E p \in Procs :
        /\ run[p].pc = "done"
        /\ run[p].resumed
        /\ Authenticate(run[p].providerName, run[p].token) # ""
        /\ run[p].result.Events # <<>>
        /\ files[run[p].runID].exists

(***************************************************************************)
(* Termination of Run (specification FairRunSpec).                         *)
(***************************************************************************)
\* The last event of a result has the given name.
ends_with(result, name) ==
    /\ result.Events # <<>>
    /\ result.Events[Len(result.Events)].Name = name

\* What a returned result must be, given the arguments of the invocation.
result_as_expected(r) ==
    IF r.providerName \notin Providers
    THEN ~r.result.Success
    ELSE LET authenticated == Authenticate(r.providerName, r.token) = ""
             called        == Client_Call(r.providerName, r.payload) = ""
         IN  /\ r.result.Success = (authenticated /\ called)
             /\ r.result.Success => ends_with(r.result, "call")
             /\ (authenticated /\ ~r.result.Success) => ends_with(r.result, "call_error")

\* C38: every invocation of Run returns, and returns one Result: success is
\* TRUE exactly when authentication and the provider call both succeeded,
\* and then the last event is "call"; a failed Result after a successful
\* authentication ends with the event "call_error".
C38_RunTerminatesWithOneResult ==
    /\ \A p \in Procs :
          (run[p].pc \in {"auth", "model_select", "call"}) ~> (run[p].pc = "done")
    /\ [](\A p \in Procs : run[p].pc = "done" => result_as_expected(run[p]))
    /\ [][ \A p \in Procs :
             run[p].pc = "done" => (run'[p] = run[p] \/ run'[p] = IdleRun) ]_vars

\* Both kinds of result after authentication have been returned.
C38_Witness ==
    \E p, q \in Procs :
        /\ run[p].pc = "done" /\ run[p].result.Success
        /\ ends_with(run[p].result, "call")
        /\ run[q].pc = "done" /\ ~run[q].result.Success
        /\ ends_with(run[q].result, "call_error")

(***************************************************************************)
(* Properties of the payload validators (specification ValidationSpec).    *)
(***************************************************************************)
\* C39: the two validators agree: for the payload either of them has been
\* called with, ValidatePayload returns no error exactly when
\* ValidatePayloadStrict reports Valid = TRUE.
C39_ValidatorsAgree ==
    lib_call.fn \in {"ValidatePayload", "ValidatePayloadStrict"} =>
        LET payload == lib_call.args
        IN  /\ lib_call.fn = "ValidatePayload" =>
                  ((lib_ret.err = <<>>) = ValidatePayloadStrict(payload).Valid)
            /\ lib_call.fn = "ValidatePayloadStrict" =>
                  (lib_ret.Valid = (ValidatePayload(payload) = <<>>))

====
